---- MODULE Spec2Model ----
(***************************************************************************)
(* Warehouse Management API (src/main.py, src/schemas.py).                 *)
(*                                                                         *)
(* Three collections of a document store (item, location, movement), the   *)
(* create and list handlers over them, and the stock report that joins the *)
(* item catalogue with the movement log in memory.                         *)
(*                                                                         *)
(* Strings are sequences of code points, so that Python's string order,    *)
(* case folding and the store's regular-expression match are computed and  *)
(* not assumed.  An Optional[...] value is a set with at most one element  *)
(* ({} is None / a missing key).                                           *)
(***************************************************************************)
EXTENDS Integers, Sequences, FiniteSets, TLC

(* ------------------------------ bounds -------------------------------- *)

\* Documents the store may hold in all (inserts stop there) in the runs of the
\* stock report and of the listings.
MaxDocs == 4

\* The same, in the runs of the whole program.
MaxDocsAll == 3

(* ------------------------------ strings ------------------------------- *)

\* "Ab" and "B": code point order puts "Ab" < "B".
NameAb == <<65, 98>>
NameB == <<66>>

SkuA1 == <<65, 49>>
SkuB2 == <<66, 50>>

\* str.lower() of one code point (ASCII letters).
Lower(c) == IF c \in 65..90 THEN c + 32 ELSE c

\* Python's < on str: lexicographic by code point, a proper prefix first.
RECURSIVE StrLess(_, _)
StrLess(s, t) ==
    IF t = <<>> THEN FALSE
    ELSE IF s = <<>> THEN TRUE
    ELSE IF Head(s) # Head(t) THEN Head(s) < Head(t)
    ELSE StrLess(Tail(s), Tail(t))

\* q occurs in s as a substring, letter case ignored.
ContainsCI(q, s) ==
    \E i \in 1..(Len(s) - Len(q) + 1) :
        \A j \in 1..Len(q) : Lower(q[j]) = Lower(s[i + j - 1])

\* str(ObjectId): the identifier in string form (one digit per document here).
Str(oid) == <<48 + oid>>

(* --------------------------- request inputs --------------------------- *)

\* Validated Item bodies (schemas.Item: sku and name are required strings).
ItemInputs ==
    { [sku |-> SkuA1, name |-> NameB],
      [sku |-> SkuB2, name |-> NameAb] }

\* Validated Location bodies (schemas.Location: code and name are required).
LocationInputs ==
    { [code |-> SkuA1, name |-> NameAb] }

\* The item references a client sends: the string forms of the first two
\* identifiers the store hands out.  Either may name an item, a document of
\* another collection, or nothing yet.
ItemRefs == {Str(1), Str(2)}

\* Signed quantities a client sends (schemas.Movement.quantity: int).
Quantities == {-1, 2}

\* A stored field value, tagged with its Python type.
IntVal(n) == [type |-> "int", val |-> n]

\* A string that is no number, such as "abc" (its characters play no part).
NonNumeric == [type |-> "str", val |-> 0]

\* Validated Movement bodies (schemas.Movement); quantity is always an int.
MovementInputs ==
    { [item_id |-> r, quantity |-> {IntVal(n)}] : r \in ItemRefs, n \in Quantities }

\* The values of the query parameter q: absent, "", "a" and ".".
QInputs == { {}, {<<>>}, {<<97>>}, {<<46>>} }

\* The caps a list request passes.
ListLimits == {1, 2}

\* The caps a stock request passes; Python accepts a negative one.
StockLimits == {-1, 0, 1, 2}

(* ------------------------------- state -------------------------------- *)

VARIABLES
    db,         \* the document store: collection name -> documents, in insertion order
    up,         \* whether the store answers; a call to it raises when it does not
    nextId,     \* the ObjectId the store generates next
    issued,     \* the identifiers the create handlers have returned, in order
    pc,         \* current_stock: "idle", or "items" once the item fetch is done
    limit,      \* current_stock's parameter
    items,      \* current_stock's local: the dict str(_id) -> item document
    response    \* the last response sent

vars == <<db, up, nextId, issued, pc, limit, items, response>>

stockLocals == <<pc, limit, items>>

(* ---------------------------- Python values --------------------------- *)

\* A dict is the sequence of its (key, value) pairs in insertion order.
DictKeys(d) == { d[i].key : i \in 1..Len(d) }

\* dict.get(k): {} is None.
DictGet(d, k) == { d[i].val : i \in { j \in 1..Len(d) : d[j].key = k } }

\* d[k] = v: an existing key keeps its place, a new one goes last.
DictSet(d, k, v) ==
    IF k \in DictKeys(d)
    THEN [ i \in 1..Len(d) |-> IF d[i].key = k THEN [key |-> k, val |-> v] ELSE d[i] ]
    ELSE Append(d, [key |-> k, val |-> v])

\* int(x): an int is itself; None and a non-numeric str raise.
PyInt(x) ==
    IF x.type = "int" THEN [ok |-> TRUE, val |-> x.val] ELSE [ok |-> FALSE, val |-> 0]

\* s[:n]
PySlice(s, n) ==
    IF n >= 0
    THEN SubSeq(s, 1, IF n < Len(s) THEN n ELSE Len(s))
    ELSE SubSeq(s, 1, IF Len(s) + n > 0 THEN Len(s) + n ELSE 0)

\* One step of sorted(): x goes before the first element whose key is greater.
InsertRow(s, x) ==
    LET later == { i \in 1..Len(s) : StrLess(x.name, s[i].name) }
        at == IF later = {} THEN Len(s) + 1
              ELSE CHOOSE i \in later : \A j \in later : i <= j
    IN SubSeq(s, 1, at - 1) \o <<x>> \o SubSeq(s, at, Len(s))

\* sorted() left out: the rows stay in the order the totals were built in.
SortedByName_unsorted(res) == res

\* sorted(res, key=lambda x: x["name"]): stable, ascending by name.
RECURSIVE SortedByName(_)
SortedByName(res) ==
    IF res = <<>> THEN <<>>
    ELSE InsertRow(SortedByName(SubSeq(res, 1, Len(res) - 1)), res[Len(res)])

(* --------------------------- document store --------------------------- *)

\* The store's $regex match with options "i", for patterns of letters and
\* ".": "." stands for any one character, a letter for itself in either case.
RegexSearch(pattern, s) ==
    \E i \in 1..(Len(s) - Len(pattern) + 1) :
        \A j \in 1..Len(pattern) :
            pattern[j] = 46 \/ Lower(pattern[j]) = Lower(s[i + j - 1])

\* A filter is a set of conditions; {} selects every document.
FilterMatches(filt, doc) ==
    \A c \in filt : RegexSearch(c.regex, doc[c.field])

\* database.get_documents(collection_name, filter_dict, limit): the matching
\* documents in insertion order, at most limit of them (limit {} is None).
get_documents(collection_name, filter_dict, lim) ==
    LET Test(d) == FilterMatches(filter_dict, d)
        found == SelectSeq(db[collection_name], Test)
    IN IF lim = {} THEN found
       ELSE LET n == CHOOSE x \in lim : TRUE
            IN SubSeq(found, 1, IF n < Len(found) THEN n ELSE Len(found))

\* database.create_document(collection_name, data): the store after the
\* insert of data under a fresh identifier.
create_document(collection_name, data) ==
    [db EXCEPT ![collection_name] = Append(@, [_id |-> nextId] @@ data)]

(* ------------------------------ helpers ------------------------------- *)

to_str_id(doc) == [doc EXCEPT !._id = Str(@)]

Map_to_str_id(docs) == [ i \in 1..Len(docs) |-> to_str_id(docs[i]) ]

\* A response: the handler, the HTTP status, the "id" of a create and the
\* body of a list or a report.
Resp(op, status, id, body) ==
    [op |-> op, status |-> status, id |-> id, body |-> body]

\* The filter list_items and list_locations build from q.
NameFilter(q) ==
    IF q # {} /\ q # {<<>>}
    THEN { [field |-> "name", regex |-> CHOOSE x \in q : TRUE, options |-> "i"] }
    ELSE {}

(* ---------------------------- create handlers ------------------------ *)

Init ==
    /\ db = [item |-> <<>>, location |-> <<>>, movement |-> <<>>]
    /\ up = TRUE
    /\ nextId = 1
    /\ issued = <<>>
    /\ pc = "idle"
    /\ limit = 0
    /\ items = <<>>
    /\ response = Resp("none", 0, <<>>, <<>>)

\* Create answering with the document's position in its collection in place
\* of inserted_id.
Create_positionAsId(op, collection_name, data) ==
    /\ IF up
       THEN /\ db' = create_document(collection_name, data)
            /\ nextId' = nextId + 1
            /\ response' = Resp(op, 200, Str(Len(db'[collection_name])), <<>>)
            /\ issued' = Append(issued, Str(Len(db'[collection_name])))
       ELSE /\ response' = Resp(op, 500, <<>>, <<>>)
            /\ UNCHANGED <<db, nextId, issued>>
    /\ UNCHANGED <<up, stockLocals>>

\* Create answering with the identifier of a stored document of the same
\* content, when there is one, and inserting nothing then.
Create_dedup(op, collection_name, data) ==
    LET coll == db[collection_name]
        same == { i \in 1..Len(coll) :
                    \A f \in DOMAIN data : coll[i][f] = data[f] }
    IN /\ IF ~up
          THEN /\ response' = Resp(op, 500, <<>>, <<>>)
               /\ UNCHANGED <<db, nextId, issued>>
          ELSE IF same # {}
          THEN /\ response' = Resp(op, 200, Str(coll[CHOOSE i \in same : TRUE]._id), <<>>)
               /\ issued' = Append(issued, response'.id)
               /\ UNCHANGED <<db, nextId>>
          ELSE /\ db' = create_document(collection_name, data)
               /\ nextId' = nextId + 1
               /\ response' = Resp(op, 200, Str(nextId), <<>>)
               /\ issued' = Append(issued, Str(nextId))
       /\ UNCHANGED <<up, stockLocals>>

\* The body shared by the three create handlers: insert, answer {"id": ...};
\* an exception of the store becomes a 500.
Create(op, collection_name, data) ==
    /\ IF up
       THEN /\ db' = create_document(collection_name, data)
            /\ nextId' = nextId + 1
            /\ response' = Resp(op, 200, Str(nextId), <<>>)
            /\ issued' = Append(issued, Str(nextId))
       ELSE /\ response' = Resp(op, 500, <<>>, <<>>)
            /\ UNCHANGED <<db, nextId, issued>>
    /\ UNCHANGED <<up, stockLocals>>

create_item(item) == Create("create_item", "item", item)

create_location(location) == Create("create_location", "location", location)

create_movement(movement) == Create("create_movement", "movement", movement)

(* ----------------------------- list handlers -------------------------- *)

\* The body shared by list_items and list_locations.
List(op, collection_name, q, lim) ==
    /\ response' =
         IF up
         THEN Resp(op, 200, <<>>,
                   Map_to_str_id(get_documents(collection_name, NameFilter(q), {lim})))
         ELSE Resp(op, 500, <<>>, <<>>)
    /\ UNCHANGED <<db, up, nextId, issued, stockLocals>>

list_items(q, lim) == List("list_items", "item", q, lim)

list_locations(q, lim) == List("list_locations", "location", q, lim)

(* ---------------------------- current_stock --------------------------- *)

\* {str(d["_id"]): d for d in docs}
RECURSIVE ItemIndex(_)
ItemIndex(docs) ==
    IF docs = <<>> THEN <<>>
    ELSE DictSet(ItemIndex(SubSeq(docs, 1, Len(docs) - 1)),
                 Str(docs[Len(docs)]._id), docs[Len(docs)])

\* mv.get("quantity", 0)
GetQuantity(mv) ==
    IF mv.quantity = {} THEN IntVal(0) ELSE CHOOSE x \in mv.quantity : TRUE

\* The running total forgotten: each movement overwrites it.
GetTotal_forgets(stock, item_id) == 0

\* stock.get(item_id, 0)
GetTotal(stock, item_id) ==
    IF DictGet(stock, item_id) = {} THEN 0 ELSE CHOOSE x \in DictGet(stock, item_id) : TRUE

\* The loop over the movements: the running total per item reference, or the
\* exception int() raises.  item_id is a str in every stored movement, and
\* str() of a str is that str.
RECURSIVE Aggregate(_, _)
Aggregate(mvs, stock) ==
    IF mvs = <<>> THEN [ok |-> TRUE, stock |-> stock]
    ELSE LET mv == Head(mvs)
             item_id == mv.item_id
             qty == PyInt(GetQuantity(mv))
         IN IF ~qty.ok THEN [ok |-> FALSE, stock |-> <<>>]
            ELSE Aggregate(Tail(mvs), DictSet(stock, item_id, GetTotal(stock, item_id) + qty.val))

\* The test "if item" left out: a total without an item gets a row too.
BuildRows_keepsUnknown(stock, itemDict) ==
    [ i \in 1..Len(stock) |->
        IF DictGet(itemDict, stock[i].key) = {}
        THEN [item_id |-> stock[i].key, sku |-> <<>>, name |-> <<>>,
              quantity |-> stock[i].val]
        ELSE LET item == CHOOSE x \in DictGet(itemDict, stock[i].key) : TRUE
             IN [item_id |-> stock[i].key, sku |-> item.sku, name |-> item.name,
                 quantity |-> stock[i].val] ]

\* The test written "if item and qty": a total of zero gets no row.
BuildRows_dropsZero(stock, itemDict) ==
    LET Known(p) == DictGet(itemDict, p.key) # {} /\ p.val # 0
        kept == SelectSeq(stock, Known)
    IN [ i \in 1..Len(kept) |->
           LET item == CHOOSE x \in DictGet(itemDict, kept[i].key) : TRUE
           IN [item_id |-> kept[i].key, sku |-> item.sku, name |-> item.name,
               quantity |-> kept[i].val] ]

\* The loop over stock.items(): one row per total whose item is in the dict.
BuildRows(stock, itemDict) ==
    LET Known(p) == DictGet(itemDict, p.key) # {}
        kept == SelectSeq(stock, Known)
    IN [ i \in 1..Len(kept) |->
           LET item == CHOOSE x \in DictGet(itemDict, kept[i].key) : TRUE
           IN [item_id |-> kept[i].key, sku |-> item.sku, name |-> item.name,
               quantity |-> kept[i].val] ]

\* What current_stock answers from its two fetches.
StockReport(itemDict, mvs, lim) ==
    LET agg == Aggregate(mvs, <<>>)
    IN IF agg.ok
       THEN Resp("current_stock", 200, <<>>,
                 PySlice(SortedByName(BuildRows(agg.stock, itemDict)), lim))
       ELSE Resp("current_stock", 500, <<>>, <<>>)

\* The first fetch: the whole item collection, indexed by identifier.
current_stock_items(lim) ==
    /\ pc = "idle"
    /\ IF up
       THEN /\ items' = ItemIndex(get_documents("item", {}, {}))
            /\ limit' = lim
            /\ pc' = "items"
            /\ UNCHANGED response
       ELSE /\ response' = Resp("current_stock", 500, <<>>, <<>>)
            /\ UNCHANGED <<pc, limit, items>>
    /\ UNCHANGED <<db, up, nextId, issued>>

\* The failure of the second fetch swallowed: a report over no movements.
current_stock_movements_partial ==
    /\ pc = "items"
    /\ response' =
         StockReport(items, IF up THEN get_documents("movement", {}, {}) ELSE <<>>, limit)
    /\ pc' = "idle"
    /\ limit' = 0
    /\ items' = <<>>
    /\ UNCHANGED <<db, up, nextId, issued>>

\* The items fetched again after the movements, in place of the first fetch.
current_stock_movements_refetch ==
    /\ pc = "items"
    /\ response' =
         IF up
         THEN StockReport(ItemIndex(get_documents("item", {}, {})),
                          get_documents("movement", {}, {}), limit)
         ELSE Resp("current_stock", 500, <<>>, <<>>)
    /\ pc' = "idle"
    /\ limit' = 0
    /\ items' = <<>>
    /\ UNCHANGED <<db, up, nextId, issued>>

\* The second fetch, the aggregation and the answer; the locals end with
\* the call.
current_stock_movements ==
    /\ pc = "items"
    /\ response' =
         IF up
         THEN StockReport(items, get_documents("movement", {}, {}), limit)
         ELSE Resp("current_stock", 500, <<>>, <<>>)
    /\ pc' = "idle"
    /\ limit' = 0
    /\ items' = <<>>
    /\ UNCHANGED <<db, up, nextId, issued>>

(* ------------------------------ the store ----------------------------- *)

\* The store becomes unreachable, or reachable again.
store_toggles ==
    /\ up' = ~up
    /\ UNCHANGED <<db, nextId, issued, stockLocals, response>>

\* A movement another writer of the database stores: the store keeps no
\* schema, so its quantity may be missing or may be no number.
RawMovements ==
    { [item_id |-> Str(1), quantity |-> {}],
      [item_id |-> Str(1), quantity |-> {NonNumeric}] }

store_insert_movement(doc) ==
    /\ up
    /\ db' = create_document("movement", doc)
    /\ nextId' = nextId + 1
    /\ UNCHANGED <<up, issued, stockLocals, response>>

(* ---------------------------- specification --------------------------- *)

\* Inserts stop once the store holds n documents.
Room(n) == up => nextId <= n

Next ==
    \/ \E item \in ItemInputs : Room(MaxDocsAll) /\ create_item(item)
    \/ \E location \in LocationInputs : Room(MaxDocsAll) /\ create_location(location)
    \/ \E movement \in MovementInputs : Room(MaxDocsAll) /\ create_movement(movement)
    \/ \E q \in QInputs, lim \in ListLimits : list_items(q, lim)
    \/ \E q \in QInputs, lim \in ListLimits : list_locations(q, lim)
    \/ \E lim \in StockLimits : current_stock_items(lim)
    \/ current_stock_movements
    \/ store_toggles

\* The whole program.
Spec == Init /\ [][Next]_vars

\* The stock report and what it reads: the items, the movements and the two
\* fetches.  The handlers left out write neither collection.
NextStock ==
    \/ \E item \in ItemInputs : Room(MaxDocs) /\ create_item(item)
    \/ \E movement \in MovementInputs : Room(MaxDocs) /\ create_movement(movement)
    \/ \E lim \in StockLimits : current_stock_items(lim)
    \/ current_stock_movements
    \/ store_toggles

SpecStock == Init /\ [][NextStock]_vars

\* The stock report over a movement collection that other writers share.
NextShared ==
    \/ NextStock
    \/ \E doc \in RawMovements : Room(MaxDocs) /\ store_insert_movement(doc)

SpecShared == Init /\ [][NextShared]_vars

(* ------------------------ vocabulary of the claims -------------------- *)

\* The step in which current_stock answers after its second fetch.
StockAnswerStep == pc = "items" /\ pc' = "idle"

\* That step, answering with a report.
StockReportStep == StockAnswerStep /\ response'.status = 200

\* Any step of current_stock: only it moves pc, and only it answers in its name.
StockStep ==
    \/ pc' # pc
    \/ response' # response /\ response'.op = "current_stock"

\* The positions of the movements of a log that reference an item identifier.
MovementsOf(ref, mvs) == { i \in 1..Len(mvs) : mvs[i].item_id = ref }

\* The quantity a movement carries, a missing or non-numeric one counted as 0.
QuantityOrZero(mv) ==
    IF mv.quantity = {} THEN 0
    ELSE LET x == CHOOSE y \in mv.quantity : TRUE
         IN IF x.type = "int" THEN x.val ELSE 0

\* The sum of the quantities at the positions S of a log.
RECURSIVE SumAt(_, _)
SumAt(S, mvs) ==
    IF S = {} THEN 0
    ELSE LET i == CHOOSE j \in S : TRUE
         IN QuantityOrZero(mvs[i]) + SumAt(S \ {i}, mvs)

\* The net quantity of an item reference in a log.
NetQuantity(ref, mvs) == SumAt(MovementsOf(ref, mvs), mvs)

\* The identifiers, in string form, of the items in the store.
ItemIds == { Str(db.item[i]._id) : i \in 1..Len(db.item) }

\* The rows of a response, as a set of positions.
Rows(r) == 1..Len(r.body)

\* The item references of a log.
Referenced(mvs) == { mvs[i].item_id : i \in 1..Len(mvs) }

(* -------------------------------- C1 ---------------------------------- *)

\* C1: when no item was written between the item fetch and the answer (the
\* fetched catalogue is the whole item collection), every row of the report
\* belongs to an item x of the store, carries x's sku and name, and its
\* quantity is the sum of the signed quantities of the movements in the store
\* whose item_id is str(x._id).
C1_QuantityIsSumOfMovements ==
    [][ (StockReportStep /\ Len(items) = Len(db.item)) =>
          \A k \in Rows(response') :
              \E i \in 1..Len(db.item) :
                  /\ response'.body[k].item_id = Str(db.item[i]._id)
                  /\ response'.body[k].sku = db.item[i].sku
                  /\ response'.body[k].name = db.item[i].name
                  /\ response'.body[k].quantity
                       = NetQuantity(Str(db.item[i]._id), db.movement) ]_vars

\* One item "B" with the movements +2 and -1: the report is its row with 1.
C1_Witness ==
    /\ response.op = "current_stock"
    /\ response.status = 200
    /\ Len(db.item) = 1
    /\ Len(db.movement) = 2
    /\ db.movement[1].item_id = Str(db.item[1]._id)
    /\ db.movement[2].item_id = Str(db.item[1]._id)
    /\ db.movement[1].quantity = {IntVal(2)}
    /\ db.movement[2].quantity = {IntVal(-1)}
    /\ response.body = << [item_id |-> Str(db.item[1]._id), sku |-> db.item[1].sku,
                           name |-> db.item[1].name, quantity |-> 1] >>

(* -------------------------------- C2 ---------------------------------- *)

\* The movements of a log that reference an item of the dict.
LiveMovements(itemDict, mvs) ==
    LET Live(mv) == mv.item_id \in DictKeys(itemDict)
    IN SelectSeq(mvs, Live)

\* C2: while the store answers, the report is produced whatever the movements
\* reference; every row's item_id is the identifier of an item in the item
\* collection; and the rows are those the log gives once the movements that
\* reference no fetched item are taken out of it.
C2_NoRowForUnknownItem ==
    [][ (StockAnswerStep /\ up) =>
          /\ response'.status = 200
          /\ \A k \in Rows(response') : response'.body[k].item_id \in ItemIds
          /\ response'.body
               = StockReport(items, LiveMovements(items, db.movement), limit).body ]_vars

\* A movement that references no item was stored first, a movement of the one
\* item after it; the report is that item's row alone, with its own quantity.
C2_Witness ==
    /\ response.op = "current_stock"
    /\ response.status = 200
    /\ Len(db.item) = 1
    /\ Len(db.movement) = 2
    /\ db.movement[1].item_id \notin ItemIds
    /\ db.movement[2].item_id \in ItemIds
    /\ Len(response.body) = 1
    /\ response.body[1].item_id = db.movement[2].item_id
    /\ {IntVal(response.body[1].quantity)} = db.movement[2].quantity

(* -------------------------------- C3 ---------------------------------- *)

\* The identifiers a report over these fetches has a row for.
Reportable(itemDict, mvs) == DictKeys(itemDict) \cap Referenced(mvs)

\* The name the dict gives an identifier.
NameOf(itemDict, ref) == (CHOOSE x \in DictGet(itemDict, ref) : TRUE).name

Min(a, b) == IF a < b THEN a ELSE b

\* C3: for a cap limit >= 0 the report holds min(limit, n) of the n rows, in
\* non-decreasing order of name, and no row left out has a name strictly
\* smaller than the name of a row returned.
C3_SortedPrefix ==
    [][ (StockReportStep /\ limit >= 0) =>
          LET all == Reportable(items, db.movement)
              got == { response'.body[k].item_id : k \in Rows(response') }
          IN /\ Len(response'.body) = Min(limit, Cardinality(all))
             /\ Cardinality(got) = Len(response'.body)
             /\ got \subseteq all
             /\ \A j, k \in Rows(response') :
                    j < k => ~StrLess(response'.body[k].name, response'.body[j].name)
             /\ \A ref \in all \ got : \A k \in Rows(response') :
                    ~StrLess(NameOf(items, ref), response'.body[k].name) ]_vars

\* "B" was created before "Ab" and moved before it; the report of one row is
\* the row of "Ab".
C3_Witness ==
    /\ response.op = "current_stock"
    /\ response.status = 200
    /\ Len(db.item) = 2
    /\ db.item[1].name = NameB
    /\ db.item[2].name = NameAb
    /\ Len(db.movement) = 2
    /\ db.movement[1].item_id = Str(db.item[1]._id)
    /\ db.movement[2].item_id = Str(db.item[2]._id)
    /\ Len(response.body) = 1
    /\ response.body[1].name = NameAb

(* -------------------------------- C4 ---------------------------------- *)

\* C4: a listing asked with a non-empty q returns only records whose name
\* contains q as a substring, letter case ignored.
C4_FilterIsSubstring ==
    [][ \A q \in QInputs, lim \in ListLimits :
          ( /\ list_items(q, lim) \/ list_locations(q, lim)
            /\ up
            /\ q # {}
            /\ q # {<<>>} ) =>
          \A k \in Rows(response') :
              ContainsCI(CHOOSE x \in q : TRUE, response'.body[k].name) ]_vars

(* -------------------------------- C5 ---------------------------------- *)

\* C5: while the store answers, the report is produced even when a movement's
\* quantity is missing or is no number, and every row's quantity is the sum
\* of its item's movements with such a quantity counted as zero.
C5_BadQuantityCountsZero ==
    [][ (StockAnswerStep /\ up) =>
          /\ response'.status = 200
          /\ \A k \in Rows(response') :
                 response'.body[k].quantity
                   = NetQuantity(response'.body[k].item_id, db.movement) ]_vars

(* -------------------------------- C6 ---------------------------------- *)

\* C6: a step of current_stock taken while the store does not answer (either
\* fetch) ends the request with a 500 that carries no rows, and leaves the
\* store as it was.
C6_FetchFailureIsServerError ==
    [][ (StockStep /\ ~up) =>
          /\ pc' = "idle"
          /\ response'.op = "current_stock"
          /\ response'.status = 500
          /\ response'.body = <<>>
          /\ db' = db ]_vars

\* The store holds an item and a movement of it, a report could be computed,
\* and the request has ended in a 500 with the store down.
C6_Witness ==
    /\ ~up
    /\ pc = "idle"
    /\ response = Resp("current_stock", 500, <<>>, <<>>)
    /\ Len(db.item) = 1
    /\ Len(db.movement) = 1
    /\ db.movement[1].item_id = Str(db.item[1]._id)

(* -------------------------------- C7 ---------------------------------- *)

CreateOps == {"create_item", "create_location", "create_movement"}

\* C7: every identifier a create has returned is a non-empty string and
\* differs from every identifier returned before it; the identifier in a
\* create's response is the one returned last.
C7_FreshIdentifiers ==
    /\ \A i \in 1..Len(issued) :
           /\ issued[i] # <<>>
           /\ \A j \in 1..Len(issued) : i # j => issued[i] # issued[j]
    /\ (response.op \in CreateOps /\ response.status = 200) =>
           /\ Len(issued) > 0
           /\ response.id = issued[Len(issued)]

\* One create per collection has returned.
C7_Witness ==
    /\ Len(issued) = 3
    /\ Len(db.item) = 1
    /\ Len(db.location) = 1
    /\ Len(db.movement) = 1

(* -------------------------------- C8 ---------------------------------- *)

Collections == {"item", "location", "movement"}

CreateOpOf(c) ==
    IF c = "item" THEN "create_item"
    ELSE IF c = "location" THEN "create_location" ELSE "create_movement"

C9_TwoSnapshots ==
    [][ StockReportStep =>
          /\ \A k \in Rows(response') :
                 /\ response'.body[k].item_id \in DictKeys(items)
                 /\ response'.body[k].name = NameOf(items, response'.body[k].item_id)
                 /\ response'.body[k].quantity
                      = NetQuantity(response'.body[k].item_id, db.movement)
          /\ \A ref \in ItemIds \ DictKeys(items) :
                 \A k \in Rows(response') : response'.body[k].item_id # ref ]_vars

\* "Ab" was stored after the first fetch and moved before "B" was: the report
\* counts the later movement of "B" and has no row for "Ab", which would
\* have come first.
C9_Witness ==
    /\ response.op = "current_stock"
    /\ response.status = 200
    /\ Len(db.item) = 2
    /\ db.item[1].name = NameB
    /\ db.item[2].name = NameAb
    /\ Len(db.movement) = 2
    /\ db.movement[1].item_id = Str(db.item[2]._id)
    /\ db.movement[2].item_id = Str(db.item[1]._id)
    /\ Len(response.body) = 1
    /\ response.body[1].item_id = Str(db.item[1]._id)
    /\ {IntVal(response.body[1].quantity)} = db.movement[2].quantity

(* -------------------------------- C10 --------------------------------- *)

\* C10: with no item written since the first fetch and a cap no smaller than
\* the item collection, the report has one row for each item of the store
\* that a movement references and no other row, no identifier twice; an
\* item whose movements sum to zero has its row, with quantity 0.
C10_OneRowPerMovedItem ==
    [][ (StockReportStep /\ Len(items) = Len(db.item) /\ limit >= Len(db.item)) =>
          LET got == { response'.body[k].item_id : k \in Rows(response') }
          IN /\ got = ItemIds \cap Referenced(db.movement)
             /\ Len(response'.body) = Cardinality(got)
             /\ \A ref \in ItemIds \cap Referenced(db.movement) :
                    NetQuantity(ref, db.movement) = 0 =>
                        \E k \in Rows(response') :
                            /\ response'.body[k].item_id = ref
                            /\ response'.body[k].quantity = 0 ]_vars

\* One item whose movements +2, -1, -1 sum to zero: its row says 0.
C10_Witness ==
    /\ response.op = "current_stock"
    /\ response.status = 200
    /\ Len(db.item) = 1
    /\ Len(db.movement) = 3
    /\ \A i \in 1..3 : db.movement[i].item_id = Str(db.item[1]._id)
    /\ NetQuantity(Str(db.item[1]._id), db.movement) = 0
    /\ Len(response.body) = 1
    /\ response.body[1].quantity = 0

====
